---- MODULE Spec2Model ----
(***************************************************************************)
(* A model of the FTrace collector of util/trace.cc: the FTraceTracer      *)
(* object (is_tracing_, fds_, free_fd_), the control flow of Trace() and   *)
(* of the destructor, and the part of the operating system the tracer      *)
(* talks to: the kernel control files, the per-CPU trace pipes, the        *)
(* process's descriptor table, the output files and the clock.             *)
(***************************************************************************)
EXTENDS Integers, Sequences, FiniteSets, TLC

(***************************************************************************)
(* Bounds of the model.                                                    *)
(***************************************************************************)
\* the largest number of online CPUs get_nprocs() reports
MaxCPU == 2
\* the number of bytes the kernel produces in one run
MaxData == 2
\* the largest --capture_seconds tried
MaxCaptureSeconds == 1

(***************************************************************************)
(* Program constants.  The clock unit is the polling interval.             *)
(***************************************************************************)
\* absl::Milliseconds(100), in clock units
Interval == 1
\* absl::Seconds(1) / absl::Milliseconds(100)
IntervalsPerSecond == 10
\* the lowest descriptor open() hands out: 0, 1 and 2 are the standard streams
FirstFd == 3
\* main() calls Trace() once on the tracer it constructs
TraceCalls == 1
\* the calls of Trace() a caller that keeps the tracer makes on it
ReuseCalls == 2

Seconds(s) == s * IntervalsPerSecond

CPUs == 0 .. (MaxCPU - 1)
\* descriptors the process can hold: the guard, two per CPU, one leaked
MaxFd == FirstFd + 2 * MaxCPU + 1
FdRange == FirstFd .. MaxFd
\* a descriptor number that names no open file
BadFd == -1

Events == <<"sched:sched_switch", "sched:sched_wakeup">>

VARIABLES
  pc,               \* position of the control thread
  calls,            \* ghost: number of Trace() calls made on the object
  buffer_size_,     \* const int buffer_size_
  events_,          \* const std::vector<std::string> events_
  is_tracing_,      \* bool is_tracing_
  fds_,             \* std::vector<std::pair<int,int>> fds_
  free_fd_,         \* int free_fd_
  capture_seconds,  \* argument of Trace()
  cpu_count,        \* local cpu_count of CollectTrace / CopyCPUBuffers
  i,                \* loop index of CollectTrace / CopyCPUBuffers
  cur,              \* in_fd, out_fd of the running CopyCPUBuffer
  status,           \* local status of Trace()
  failedCopyStatus, \* local failedCopyStatus of CollectTrace
  pass_status,      \* value returned by CopyCPUBuffers
  stop_status,      \* value returned by StopTrace
  frame,            \* callers and arguments of the running calls
  ret,              \* value returned by Trace()
  ctl,              \* the kernel control files whose values the kernel acts on
  kbuf,             \* kernel per-CPU ring buffers (unread bytes)
  produced,         \* number of bytes the kernel has produced
  fdtab,            \* descriptor table of the process
  outfile,          \* contents of traces/cpu<N>
  tar,              \* trace.tar.gz
  elapsed,          \* absl::Now() - start_time while the capture loop runs
  readlog,          \* ghost: bytes returned by the reads of each CPU stream
  obs               \* ghost: what has happened so far

vars == <<pc, calls, buffer_size_, events_, is_tracing_, fds_, free_fd_,
          capture_seconds, cpu_count, i, cur, status,
          failedCopyStatus, pass_status, stop_status, frame, ret, ctl, kbuf,
          produced, fdtab, outfile, tar, elapsed, readlog, obs>>

(***************************************************************************)
(* util/status.h                                                           *)
(***************************************************************************)
OkStatus == [ok |-> TRUE, message |-> <<>>]
InternalError(msg) == [ok |-> FALSE, message |-> msg]

\* absl::StrCat: messages are sequences of words
StrCat2(a, b) == a \o b
StrCat3(a, b, c) == a \o b \o c

Digits == <<"0", "1", "2", "3", "4", "5", "6", "7", "8", "9">>
RECURSIVE NatStr(_)
NatStr(n) == IF n < 10 THEN <<Digits[n + 1]>>
             ELSE NatStr(n \div 10) \o <<Digits[(n % 10) + 1]>>
\* std::to_string(int)
to_string(n) == IF n < 0 THEN <<"-">> \o NatStr(0 - n) ELSE NatStr(n)

\* a occurs in b as a contiguous run of words
Contains(b, a) ==
  \E k \in 0 .. (Len(b) - Len(a)) : SubSeq(b, k + 1, k + Len(a)) = a

(***************************************************************************)
(* The descriptor table.                                                   *)
(***************************************************************************)
Closed == [kind |-> "closed", cpu |-> 0]
Guard == [kind |-> "guard", cpu |-> 0]
InEnd(c) == [kind |-> "in", cpu |-> c]
OutEnd(c) == [kind |-> "out", cpu |-> c]

IsOpen(tab, fd) == fd \in FdRange /\ tab[fd].kind # "closed"
HasFree(tab) == \E f \in FdRange : tab[f].kind = "closed"
\* open() returns the lowest descriptor not in use
LowestFree(tab) ==
  CHOOSE f \in FdRange :
    /\ tab[f].kind = "closed"
    /\ \A g \in FdRange : g < f => tab[g].kind # "closed"
\* close(fd): EBADF, and no effect, when fd is not open
CloseFd(tab, fd) == IF IsOpen(tab, fd) THEN [tab EXCEPT ![fd] = Closed] ELSE tab

RECURSIVE CloseAll(_, _)
CloseAll(tab, pairs) ==
  IF pairs = <<>> THEN tab
  ELSE CloseAll(CloseFd(CloseFd(tab, Head(pairs).first), Head(pairs).second),
                Tail(pairs))

\* Closing the free_buffer handle clears the ring buffer, and with the
\* disable_on_free option set it turns tracing off.
CtlAfterFree(c) ==
  IF c.trace_options = "disable_on_free" THEN [c EXCEPT !.tracing_on = "0"]
  ELSE c
EmptyBufs == [c \in CPUs |-> <<>>]

(***************************************************************************)
(* std::ofstream as WriteString uses it.  The file may fail to open, or    *)
(* the data may fail to reach it.  A failed open sets failbit; a failed    *)
(* write sets badbit when the library writes through during operator<<     *)
(* and failbit when the error shows at close().                            *)
(***************************************************************************)
StreamResults ==
  { [done |-> TRUE,  bad |-> FALSE],     \* opened and written
    [done |-> FALSE, bad |-> FALSE],     \* failbit only
    [done |-> FALSE, bad |-> TRUE] }     \* badbit

NoFrame == [stop_caller |-> "none", final_copy |-> FALSE, pass_caller |-> "none"]
NoObs == [os_failed |-> FALSE,      \* a system call or library call failed
          guard_opened |-> FALSE,   \* the free_buffer handle was opened
          guard_reclosed |-> FALSE, \* close(free_fd_) did not hit the open guard
          cfg_ok |-> FALSE,         \* ConfigureFTrace returned OK
          capture |-> FALSE,        \* CollectTrace was entered
          open_failed |-> FALSE,    \* a stream open failed in CollectTrace
          read_fail_cpu |-> -1,     \* CPU whose stream read failed
          pass_nodata |-> TRUE,     \* every read of this pass found no data
          last_read |-> "none",     \* what the last read() of this pass met
          drain_failed |-> FALSE,   \* a pass of the capture loop failed
          stop_write_bad |-> FALSE] \* StopTrace's write of tracing_on met badbit

(***************************************************************************)
(* FTraceTracer(...) with the flags main() has validated, on a host whose  *)
(* tracer may have been left on by an earlier user.                        *)
(***************************************************************************)
Init ==
  /\ pc = "main"
  /\ calls = 0
  /\ buffer_size_ = MaxData   \* reads may be short: smaller buffers add nothing
  /\ events_ = Events
  /\ is_tracing_ = FALSE
  /\ fds_ = <<>>
  /\ free_fd_ = BadFd    \* no initialiser; never read before line 198 sets it
  /\ capture_seconds = 0
  /\ cpu_count = 0
  /\ i = 0
  /\ cur = [first |-> BadFd, second |-> BadFd]
  /\ status = OkStatus
  /\ failedCopyStatus = OkStatus
  /\ pass_status = OkStatus
  /\ stop_status = OkStatus
  /\ frame = NoFrame
  /\ ret = OkStatus
  /\ ctl \in [tracing_on : {"0", "1"}, trace_options : {"nodisable_on_free"}]
  /\ kbuf = EmptyBufs
  /\ produced = 0
  /\ fdtab = [f \in FdRange |-> Closed]
  /\ outfile = EmptyBufs
  /\ tar = [made |-> FALSE, files |-> EmptyBufs]
  /\ elapsed = 0
  /\ readlog = EmptyBufs
  /\ obs = NoObs

\* the variables no step of the configuration phase touches
CaptureUnchanged ==
  UNCHANGED <<buffer_size_, events_, is_tracing_, fds_, capture_seconds,
              cpu_count, i, cur, failedCopyStatus, pass_status,
              stop_status, frame, kbuf, produced, outfile, tar, elapsed, readlog>>

\* return s from Trace()
TraceReturn(s) == /\ status' = s
                  /\ ret' = s
                  /\ pc' = "returned"

\* a verdict that reports nothing
WriteFailed_Never(r) == FALSE
\* WriteString's verdict on its stream: only badbit is an error
WriteFailed(r) == r.bad
WriteString(path, r) ==
  IF WriteFailed(r) THEN InternalError(StrCat2(<<"Failed to write to">>, <<path>>))
  ELSE OkStatus

(***************************************************************************)
(* Trace(), lines 134-150.                                                 *)
(***************************************************************************)
TraceCall(at, most) ==
  /\ pc = at
  /\ calls < most
  /\ ~is_tracing_
  /\ calls' = calls + 1
  /\ \E d \in 1 .. MaxCaptureSeconds, tmp_ok \in BOOLEAN :
       /\ capture_seconds' = d
       /\ obs' = [NoObs EXCEPT !.os_failed = ~tmp_ok]
       /\ IF tmp_ok
          THEN /\ pc' = "cfg_tracing_off"
               /\ UNCHANGED <<status, ret>>
          ELSE TraceReturn(InternalError(<<"Unable to create temporary directory.">>))
  /\ stop_status' = OkStatus
  /\ frame' = NoFrame
  /\ UNCHANGED <<buffer_size_, events_, is_tracing_, fds_, free_fd_, cpu_count,
                 i, cur, failedCopyStatus, pass_status, ctl, kbuf,
                 produced, fdtab, outfile, tar, elapsed, readlog>>

\* main() calls Trace() on the tracer it has constructed
Trace == TraceCall("main", TraceCalls)

(***************************************************************************)
(* ConfigureFTrace(), one action per statement.                            *)
(***************************************************************************)
\* a configuration write of value v to control file f, then on to pc nxt
ConfigWrite(at, f, v, nxt) ==
  /\ pc = at
  /\ \E r \in StreamResults :
       /\ ctl' = IF r.done /\ f \in DOMAIN ctl THEN [ctl EXCEPT ![f] = v] ELSE ctl
       /\ obs' = [obs EXCEPT !.os_failed = @ \/ ~r.done]
       /\ IF WriteString(f, r).ok
          THEN /\ pc' = nxt
               /\ UNCHANGED <<status, ret>>
          ELSE TraceReturn(WriteString(f, r))
  /\ UNCHANGED <<calls, free_fd_, fdtab>>
  /\ CaptureUnchanged

Configure_TracingOff ==
  /\ ~is_tracing_
  /\ ConfigWrite("cfg_tracing_off", "tracing_on", "0", "cfg_free_buffer")

Configure_FreeBuffer ==
  /\ pc = "cfg_free_buffer"
  /\ \E opened \in {b \in BOOLEAN : b => HasFree(fdtab)} :
       IF opened
       THEN /\ free_fd_' = LowestFree(fdtab)
            /\ fdtab' = [fdtab EXCEPT ![LowestFree(fdtab)] = Guard]
            /\ obs' = [obs EXCEPT !.guard_opened = TRUE]
            /\ pc' = "cfg_current_tracer"
            /\ UNCHANGED <<status, ret>>
       ELSE /\ free_fd_' = -1
            /\ obs' = [obs EXCEPT !.os_failed = TRUE]
            /\ TraceReturn(InternalError(<<"unable to open free_buffer file">>))
            /\ UNCHANGED fdtab
  /\ UNCHANGED <<calls, ctl>>
  /\ CaptureUnchanged

\* a configuration that leaves out the trace_options write
Configure_CurrentTracer_Skip ==
  ConfigWrite("cfg_current_tracer", "current_tracer", "nop", "cfg_buffer_size")
Configure_CurrentTracer ==
  ConfigWrite("cfg_current_tracer", "current_tracer", "nop", "cfg_trace_options")

Configure_TraceOptions ==
  ConfigWrite("cfg_trace_options", "trace_options", "disable_on_free",
              "cfg_buffer_size")

Configure_BufferSize ==
  ConfigWrite("cfg_buffer_size", "buffer_size_kb", to_string(buffer_size_),
              "cfg_events")

\* EnableEvents(): the events are written in order until a write is short
EnableEvents ==
  /\ pc = "cfg_events"
  /\ ~is_tracing_
  /\ \E opened \in BOOLEAN, n \in 0 .. Len(events_) :
       IF ~opened
       THEN /\ obs' = [obs EXCEPT !.os_failed = TRUE]
            /\ TraceReturn(InternalError(StrCat2(<<"Could not open ">>, <<"set_event">>)))
            /\ UNCHANGED ctl
       ELSE /\ UNCHANGED ctl
            /\ IF n = Len(events_)
               THEN /\ obs' = [obs EXCEPT !.cfg_ok = TRUE]
                    /\ pc' = "copy_formats"
                    /\ UNCHANGED <<status, ret>>
               ELSE /\ obs' = [obs EXCEPT !.os_failed = TRUE]
                    /\ TraceReturn(InternalError(
                         <<"Failed to write ", events_[n + 1], " to ", "set_event">>))
  /\ UNCHANGED <<calls, free_fd_, fdtab>>
  /\ CaptureUnchanged

(***************************************************************************)
(* CopyFormats(), CopySystemTopology(): the staging of descriptor files.   *)
(* create_directories may fail; CopyFakeFile reports only badbit, so a     *)
(* source that cannot be opened is copied as an empty file without error.  *)
(***************************************************************************)
Stage(at, what, nxt) ==
  /\ pc = at
  /\ ~is_tracing_
  /\ \E mkdir_ok \in BOOLEAN, r \in StreamResults :
       /\ obs' = [obs EXCEPT !.os_failed = @ \/ ~mkdir_ok \/ ~r.done]
       /\ IF ~mkdir_ok
          THEN TraceReturn(InternalError(
                 <<"Unable to create directories for path: ", what>>))
          ELSE IF r.bad
               THEN TraceReturn(InternalError(<<"Failed to copy ", what>>))
               ELSE /\ pc' = nxt
                    /\ UNCHANGED <<status, ret>>
  /\ UNCHANGED <<calls, free_fd_, fdtab, ctl>>
  /\ CaptureUnchanged

CopyFormats == Stage("copy_formats", "formats", "copy_topology")

CopySystemTopology == Stage("copy_topology", "topology", "collect")

(***************************************************************************)
(* CollectTrace(), lines 335-404.                                          *)
(***************************************************************************)
Fixed == <<calls, buffer_size_, events_, capture_seconds>>

\* get_nprocs(): the number of CPUs online at the time of the call
NProcs == 1 .. MaxCPU

\* the is_tracing_ check, create_directories, get_nprocs, ClearCPUFDs, reserve
CollectTrace_Prepare ==
  /\ pc = "collect"
  /\ ~is_tracing_
  /\ \E mkdir_ok \in BOOLEAN, n \in NProcs :
       IF ~mkdir_ok
       THEN /\ obs' = [obs EXCEPT !.capture = TRUE, !.os_failed = TRUE]
            /\ TraceReturn(InternalError(
                 <<"Unable to create directories for path: ", "traces">>))
            /\ UNCHANGED <<cpu_count, i, fds_, fdtab>>
       ELSE /\ obs' = [obs EXCEPT !.capture = TRUE]
            /\ cpu_count' = n
            /\ i' = 0
            /\ fdtab' = CloseAll(fdtab, fds_)
            /\ fds_' = <<>>
            /\ pc' = "collect_open"
            /\ UNCHANGED <<status, ret>>
  /\ UNCHANGED <<Fixed, is_tracing_, free_fd_, cur, failedCopyStatus,
                 pass_status, stop_status, frame, ctl, kbuf, produced, outfile,
                 tar, elapsed, readlog>>

CpuName(c) == StrCat2(<<"cpu">>, to_string(c))

\* one turn of the loop of lines 352-370: open the pipe and the file of CPU i
CollectTrace_OpenCPU ==
  /\ pc = "collect_open"
  /\ i < cpu_count
  /\ \E in_ok \in {b \in BOOLEAN : b => HasFree(fdtab)} :
       IF ~in_ok
       THEN /\ obs' = [obs EXCEPT !.open_failed = TRUE, !.os_failed = TRUE]
            /\ TraceReturn(InternalError(StrCat3(<<"Unable to open ">>, CpuName(i),
                                                 <<"/trace_pipe_raw">>)))
            /\ UNCHANGED <<fdtab, fds_, i, outfile>>
       ELSE LET in_fd == LowestFree(fdtab)
                tab1 == [fdtab EXCEPT ![in_fd] = InEnd(i)]
            IN \E out_ok \in {b \in BOOLEAN : b => HasFree(tab1)} :
                 IF ~out_ok
                 THEN /\ obs' = [obs EXCEPT !.open_failed = TRUE, !.os_failed = TRUE]
                      /\ TraceReturn(InternalError(
                           StrCat2(<<"Unable to create ">>, CpuName(i))))
                      /\ fdtab' = tab1
                      /\ UNCHANGED <<fds_, i, outfile>>
                 ELSE LET out_fd == LowestFree(tab1)
                      IN /\ fdtab' = [tab1 EXCEPT ![out_fd] = OutEnd(i)]
                         /\ fds_' = Append(fds_, [first |-> in_fd, second |-> out_fd])
                         /\ outfile' = [outfile EXCEPT ![i] = <<>>]   \* O_TRUNC
                         /\ i' = i + 1
                         /\ pc' = IF i + 1 < cpu_count THEN "collect_open"
                                  ELSE "collect_start"
                         /\ UNCHANGED <<status, ret, obs>>
  /\ UNCHANGED <<Fixed, is_tracing_, free_fd_, cpu_count, cur, failedCopyStatus, pass_status, stop_status, frame, ctl, kbuf,
                 produced, tar, elapsed, readlog>>

\* lines 372-384: turn tracing on and note the start time
CollectTrace_Start ==
  /\ pc = "collect_start"
  /\ \E r \in StreamResults :
       /\ ctl' = IF r.done THEN [ctl EXCEPT !.tracing_on = "1"] ELSE ctl
       /\ obs' = [obs EXCEPT !.os_failed = @ \/ ~r.done]
       /\ IF WriteString("tracing_on", r).ok
          THEN /\ is_tracing_' = TRUE
               /\ elapsed' = 0
               /\ failedCopyStatus' = OkStatus
               /\ readlog' = EmptyBufs
               /\ pc' = "collect_sleep"
               /\ UNCHANGED <<status, ret>>
          ELSE /\ TraceReturn(WriteString("tracing_on", r))
               /\ UNCHANGED <<is_tracing_, elapsed, failedCopyStatus, readlog>>
  /\ UNCHANGED <<Fixed, fds_, free_fd_, cpu_count, i, cur, pass_status,
                 stop_status, frame, kbuf, produced, fdtab, outfile, tar>>

\* absl::SleepFor(interval) sleeps for the interval or longer
SleepFor ==
  /\ pc = "collect_sleep"
  /\ \E t \in Interval .. (2 * Interval) : elapsed' = elapsed + t
  /\ pc' = "collect_loop"
  /\ UNCHANGED <<Fixed, is_tracing_, fds_, free_fd_, cpu_count, i, cur, status, failedCopyStatus, pass_status, stop_status, frame, ret,
                 ctl, kbuf, produced, fdtab, outfile, tar, readlog, obs>>

\* a loop condition that gives up two polling intervals early
BeforeDeadline_Early == elapsed + 2 * Interval <= Seconds(capture_seconds)
\* the loop condition of line 387
BeforeDeadline == elapsed <= Seconds(capture_seconds)

\* line 387: either one more pass (line 388) or the stop of line 396
CollectTrace_Loop ==
  /\ pc = "collect_loop"
  /\ IF BeforeDeadline
     THEN /\ pc' = "pass_enter"
          /\ frame' = [frame EXCEPT !.pass_caller = "loop"]
          /\ UNCHANGED elapsed
     ELSE /\ pc' = "stop_trace"
          /\ frame' = [frame EXCEPT !.stop_caller = "collect", !.final_copy = TRUE]
          /\ elapsed' = 0          \* the clock is not read again
  /\ UNCHANGED <<Fixed, is_tracing_, fds_, free_fd_, cpu_count, i, cur, status, failedCopyStatus, pass_status, stop_status, ret, ctl,
                 kbuf, produced, fdtab, outfile, tar, readlog, obs>>

(***************************************************************************)
(* CopyCPUBuffers() and CopyCPUBuffer(), lines 406-420 and 454-473.        *)
(***************************************************************************)
NotTracingError == InternalError(<<"Not currently in a trace">>)

\* a guard turned round
NotTracing_Inverted == is_tracing_
\* a guard that never fires: StopTrace goes on to the kernel write
NotTracing_Never == FALSE
\* the guard of lines 407, 423 and 455
NotTracing == ~is_tracing_

NoPair == [first |-> BadFd, second |-> BadFd]

\* CopyCPUBuffers returns st: its locals are gone
PassReturn(st) ==
  /\ pass_status' = st
  /\ pc' = "pass_ret"
  /\ cpu_count' = 0
  /\ i' = 0
  /\ cur' = NoPair

\* What fds_[k] may hold when k is past the end of the vector: the memory
\* behind the vector's storage.  A value that names no readable descriptor
\* behaves as BadFd does, so the pairs that behave differently are these.
GarbagePairs ==
  {NoPair} \cup
  {[first |-> a, second |-> b] :
     a \in {f \in FdRange : fdtab[f].kind = "in"},
     b \in {BadFd} \cup {f \in FdRange : fdtab[f].kind = "out"}}

\* lines 411-413 with i = j and cpu_count = n: the loop test, the fetch of
\* fds_[j] and the call of CopyCPUBuffer; the vector is indexed without a
\* bounds check, and reading past its end may also trap
Fetch(j, n) ==
  IF j >= n
  THEN PassReturn(OkStatus)
  ELSE /\ cpu_count' = n
       /\ i' = j
       /\ UNCHANGED pass_status
       /\ IF j < Len(fds_)
          THEN /\ cur' = fds_[j + 1]
               /\ pc' = "drain_read"
          ELSE \/ /\ \E g \in GarbagePairs : cur' = g
                  /\ pc' = "drain_read"
               \/ /\ cur' = NoPair
                  /\ pc' = "crashed"

\* lines 407-413: the is_tracing_ check, get_nprocs() and the first fetch
CopyCPUBuffers_Enter ==
  /\ pc = "pass_enter"
  /\ IF NotTracing
     THEN /\ PassReturn(NotTracingError)
          /\ UNCHANGED obs
     ELSE /\ \E n \in NProcs : Fetch(0, n)
          /\ obs' = [obs EXCEPT !.pass_nodata = TRUE, !.last_read = "none"]
  /\ UNCHANGED <<Fixed, is_tracing_, fds_, free_fd_, status,
                 failedCopyStatus, stop_status, frame, ret, ctl, kbuf, produced,
                 fdtab, outfile, tar, elapsed, readlog>>

Min(a, b) == IF a < b THEN a ELSE b

\* What the model keeps of a file: its last MaxData bytes.  The kernel of Spec
\* produces MaxData bytes in all, so there every file is kept whole.
Recent(s) == IF Len(s) <= MaxData THEN s
             ELSE SubSeq(s, Len(s) - MaxData + 1, Len(s))

\* read(fd, buffer, buffer_size_) on a non-blocking descriptor: n is the
\* value returned
ReadResults(fd) ==
  IF IsOpen(fdtab, fd) /\ fdtab[fd].kind = "in"
  THEN {[n |-> -1, errno |-> "EIO"]} \cup
       (IF kbuf[fdtab[fd].cpu] = <<>>
        THEN {[n |-> -1, errno |-> "EAGAIN"], [n |-> 0, errno |-> "none"]}
        ELSE {[n |-> k, errno |-> "none"] :
                k \in 1 .. Min(Len(kbuf[fdtab[fd].cpu]), buffer_size_)})
  ELSE {[n |-> -1, errno |-> "EBADF"]}

\* write(fd, data, n): the number of bytes that reach the file
WriteResults(fd, n) ==
  IF IsOpen(fdtab, fd) /\ fdtab[fd].kind = "out" THEN 0 .. n ELSE {0}

\* a test that takes no result of read() for a failure
ReadIsError_Never(r) == FALSE
\* a test that takes EAGAIN for a failure too
ReadIsError_AnyFailure(r) == r.n = -1
\* line 462
ReadIsError(r) == r.n = -1 /\ r.errno # "EAGAIN"
\* line 466
ReadIsEnd(r) == r.n = -1 \/ r.n = 0

\* lines 463-464
ReadErrorStatus(in_fd) ==
  InternalError(StrCat2(<<"Unable to read cpu file ">>, to_string(in_fd)))

\* the kernel had nothing to give: end of file, or EAGAIN
NoData(r) == r.n = 0 \/ (r.n = -1 /\ r.errno = "EAGAIN")
ReadKind(r) == IF NoData(r) THEN "nodata" ELSE IF r.n > 0 THEN "data" ELSE "error"

\* one turn of the loop of lines 460-471 for the descriptors in cur
CopyCPUBuffer_Read ==
  /\ pc = "drain_read"
  /\ IF NotTracing
     THEN /\ PassReturn(NotTracingError)
          /\ UNCHANGED <<kbuf, outfile, readlog, obs>>
     ELSE \E r \in ReadResults(cur.first) :
            IF ReadIsError(r)
            THEN /\ PassReturn(ReadErrorStatus(cur.first))
                 /\ obs' = [obs EXCEPT !.read_fail_cpu = i, !.os_failed = TRUE,
                                       !.pass_nodata = @ /\ NoData(r),
                                       !.last_read = ReadKind(r)]
                 /\ UNCHANGED <<kbuf, outfile, readlog>>
            ELSE IF ReadIsEnd(r)
            THEN /\ Fetch(i + 1, cpu_count)
                 /\ obs' = [obs EXCEPT !.pass_nodata = @ /\ NoData(r),
                                       !.os_failed = @ \/ ~NoData(r),
                                       !.last_read = ReadKind(r)]
                 /\ UNCHANGED <<kbuf, outfile, readlog>>
            ELSE LET c == fdtab[cur.first].cpu
                     data == SubSeq(kbuf[c], 1, r.n)
                 IN /\ kbuf' = [kbuf EXCEPT ![c] = SubSeq(@, r.n + 1, Len(@))]
                    /\ readlog' = [readlog EXCEPT ![c] = Recent(@ \o data)]
                    /\ \E w \in WriteResults(cur.second, r.n) :
                         /\ outfile' =
                              IF w = 0 THEN outfile
                              ELSE [outfile EXCEPT ![fdtab[cur.second].cpu] =
                                                     Recent(@ \o SubSeq(data, 1, w))]
                         /\ obs' = [obs EXCEPT !.pass_nodata = FALSE,
                                               !.os_failed = @ \/ w < r.n,
                                               !.last_read = ReadKind(r)]
                    /\ UNCHANGED <<pc, pass_status, cpu_count, i, cur>>
  /\ UNCHANGED <<Fixed, is_tracing_, fds_, free_fd_, status,
                 failedCopyStatus, stop_status, frame, ret, ctl, produced,
                 fdtab, tar, elapsed>>

(***************************************************************************)
(* StopTrace(), lines 422-452.                                             *)
(***************************************************************************)
\* a merge that keeps the failed pass's message only
MergeStatus_DropStopped(failed, stopped) == IF ~failed.ok THEN failed ELSE stopped
\* lines 396-403: what CollectTrace returns once StopTrace has returned
MergeStatus(failed, stopped) ==
  IF ~failed.ok
  THEN InternalError(StrCat3(failed.message, <<"\n\n">>, stopped.message))
  ELSE stopped

\* StopTrace returns st: to CollectTrace (line 396), which returns the merged
\* status to Trace(); to the destructor (line 131); or to a test of the class
StopReturn(st) ==
  /\ stop_status' = st
  /\ IF frame.stop_caller = "collect"
     THEN /\ status' = MergeStatus(failedCopyStatus, st)
          /\ pc' = "collected"
     ELSE /\ pc' = IF frame.stop_caller = "dtor" THEN "destroyed" ELSE "main"
          /\ UNCHANGED status

\* close(free_fd_) and what it does to the kernel
HitsGuard(tab) == IsOpen(tab, free_fd_) /\ tab[free_fd_].kind = "guard"
CloseFree(tab) ==
  /\ fdtab' = CloseFd(tab, free_fd_)
  /\ kbuf' = IF HitsGuard(tab) THEN EmptyBufs ELSE kbuf
  /\ obs' = [obs EXCEPT !.guard_reclosed = @ \/ ~HitsGuard(tab)]

\* a StopTrace that never makes the final copy
FinalCopyWanted_Never == FALSE
\* line 438
FinalCopyWanted == frame.final_copy

\* lines 423-438: the is_tracing_ check and the tracing_on write
StopTrace_Write ==
  /\ pc = "stop_trace"
  /\ IF NotTracing
     THEN /\ StopReturn(NotTracingError)
          /\ UNCHANGED <<is_tracing_, ctl, kbuf, fdtab, frame, obs>>
     ELSE \E r \in StreamResults :
            IF ~WriteString("tracing_on", r).ok
            THEN /\ fdtab' = CloseFd(fdtab, free_fd_)
                 /\ kbuf' = IF HitsGuard(fdtab) THEN EmptyBufs ELSE kbuf
                 /\ obs' = [obs EXCEPT !.guard_reclosed = @ \/ ~HitsGuard(fdtab),
                                       !.stop_write_bad = r.bad]
                 /\ ctl' = IF HitsGuard(fdtab) THEN CtlAfterFree(ctl) ELSE ctl
                 /\ is_tracing_' = FALSE
                 /\ StopReturn(WriteString("tracing_on", r))
                 /\ UNCHANGED frame
            ELSE /\ ctl' = IF r.done THEN [ctl EXCEPT !.tracing_on = "0"] ELSE ctl
                 /\ obs' = [obs EXCEPT !.os_failed = @ \/ ~r.done,
                                       !.stop_write_bad = r.bad]
                 /\ IF FinalCopyWanted
                    THEN /\ pc' = "pass_enter"
                         /\ frame' = [frame EXCEPT !.pass_caller = "stop"]
                    ELSE /\ pc' = "stop_clear"
                         /\ UNCHANGED frame
                 /\ UNCHANGED <<is_tracing_, stop_status, status, kbuf, fdtab>>
  /\ UNCHANGED <<Fixed, fds_, free_fd_, cpu_count, i, cur, failedCopyStatus, pass_status, ret, produced, outfile, tar,
                 elapsed, readlog>>

\* the ghosts of one pass
PassObsReset ==
  obs' = [obs EXCEPT !.pass_nodata = TRUE, !.read_fail_cpu = -1, !.last_read = "none",
                     !.drain_failed = @ \/ (frame.pass_caller = "loop" /\ ~pass_status.ok)]

\* CopyCPUBuffers has returned: to the loop (lines 389-393) or to StopTrace
\* (lines 440-444)
CopyCPUBuffers_Return ==
  /\ pc = "pass_ret"
  /\ pass_status' = OkStatus
  /\ IF frame.pass_caller = "loop"
     THEN /\ IF ~pass_status.ok
             THEN /\ failedCopyStatus' = pass_status
                  /\ pc' = "stop_trace"
                  /\ frame' = [frame EXCEPT !.stop_caller = "collect",
                                            !.final_copy = TRUE]
                  /\ elapsed' = 0          \* the clock is not read again
             ELSE /\ pc' = "collect_sleep"
                  /\ UNCHANGED <<failedCopyStatus, frame, elapsed>>
          /\ PassObsReset
          /\ UNCHANGED <<is_tracing_, stop_status, status, ctl, kbuf, fdtab>>
     ELSE IF frame.pass_caller = "test"
     THEN /\ pc' = "main"
          /\ PassObsReset
          /\ UNCHANGED <<is_tracing_, stop_status, status, ctl, kbuf, fdtab,
                         failedCopyStatus, frame, elapsed>>
     ELSE /\ IF ~pass_status.ok
             THEN /\ fdtab' = CloseFd(fdtab, free_fd_)
                  /\ kbuf' = IF HitsGuard(fdtab) THEN EmptyBufs ELSE kbuf
                  /\ obs' = [obs EXCEPT !.guard_reclosed = @ \/ ~HitsGuard(fdtab),
                                        !.pass_nodata = TRUE,
                                        !.read_fail_cpu = -1,
                                        !.last_read = "none"]
                  /\ ctl' = IF HitsGuard(fdtab) THEN CtlAfterFree(ctl) ELSE ctl
                  /\ is_tracing_' = FALSE
                  /\ StopReturn(pass_status)
             ELSE /\ pc' = "stop_clear"
                  /\ PassObsReset
                  /\ UNCHANGED <<is_tracing_, stop_status, status, ctl, kbuf, fdtab>>
          /\ UNCHANGED <<failedCopyStatus, frame, elapsed>>
  /\ UNCHANGED <<Fixed, fds_, free_fd_, cpu_count, i, cur, ret,
                 produced, outfile, tar, readlog>>

\* lines 447-451: ClearCPUFDs(), close(free_fd_), is_tracing_ = false
StopTrace_Finish ==
  /\ pc = "stop_clear"
  /\ CloseFree(CloseAll(fdtab, fds_))
  /\ ctl' = IF HitsGuard(CloseAll(fdtab, fds_)) THEN CtlAfterFree(ctl) ELSE ctl
  /\ fds_' = <<>>
  /\ is_tracing_' = FALSE
  /\ StopReturn(OkStatus)
  /\ UNCHANGED <<Fixed, free_fd_, cpu_count, i, cur, failedCopyStatus, pass_status, frame, ret, produced, outfile,
                 tar, elapsed, readlog>>

\* Trace(), lines 167-170
Trace_Collected ==
  /\ pc = "collected"
  /\ IF ~status.ok
     THEN /\ ret' = status
          /\ pc' = "returned"
     ELSE /\ pc' = "create_tar"
          /\ UNCHANGED ret
  /\ failedCopyStatus' = OkStatus
  /\ stop_status' = OkStatus
  /\ UNCHANGED <<Fixed, is_tracing_, fds_, free_fd_, cpu_count, i, cur, status, pass_status, frame, ctl, kbuf, produced, fdtab, outfile,
                 tar, elapsed, readlog, obs>>

\* CreateTar("trace.tar.gz") and the return of Trace(), lines 172-182 and
\* 475-491: the archive holds the staged tree as it is when tar runs
CreateTar ==
  /\ pc = "create_tar"
  /\ \E tar_ok \in BOOLEAN :
       IF is_tracing_
       THEN /\ TraceReturn(InternalError(
                 <<"Trace should be done before creating a tar">>))
            /\ UNCHANGED <<tar, obs>>
       ELSE IF tar_ok
       THEN /\ tar' = [made |-> TRUE, files |-> outfile]
            /\ TraceReturn(OkStatus)
            /\ UNCHANGED obs
       ELSE /\ obs' = [obs EXCEPT !.os_failed = TRUE]
            /\ TraceReturn(InternalError(<<"Error running tar">>))
            /\ UNCHANGED tar
  /\ UNCHANGED <<Fixed, is_tracing_, fds_, free_fd_, cpu_count, i, cur, failedCopyStatus, pass_status, stop_status, frame, ctl, kbuf,
                 produced, fdtab, outfile, elapsed, readlog>>

\* a call of StopTrace(final_copy) from caller who
CallStopTrace(who, final_copy) ==
  /\ pc' = "stop_trace"
  /\ frame' = [frame EXCEPT !.stop_caller = who, !.final_copy = final_copy]
  /\ UNCHANGED <<Fixed, is_tracing_, fds_, free_fd_, cpu_count, i, cur, status, failedCopyStatus, pass_status, stop_status, ret, ctl,
                 kbuf, produced, fdtab, outfile, tar, elapsed, readlog, obs>>

\* a destructor that asks for a final copy
Destructor_WithCopy == pc = "returned" /\ CallStopTrace("dtor", TRUE)
\* ~FTraceTracer(), lines 129-132: main() returns once Trace() has returned
Destructor ==
  /\ pc = "returned"
  /\ CallStopTrace("dtor", FALSE)

\* StopTrace(final_copy) called on the object as constructed, as a test of
\* the class calls it, with either value of its argument
StopTrace_Idle ==
  /\ pc = "main"
  /\ frame.stop_caller = "none"
  /\ \E final_copy \in BOOLEAN : CallStopTrace("test", final_copy)

\* CopyCPUBuffers() or CopyCPUBuffer(in_fd, out_fd) called on the object as
\* constructed, as a test of the class calls them
CopyCPUBuffers_Idle ==
  /\ pc = "main"
  /\ frame.pass_caller = "none"
  /\ \E at \in {"pass_enter", "drain_read"} : pc' = at
  /\ frame' = [frame EXCEPT !.pass_caller = "test"]
  /\ UNCHANGED <<Fixed, is_tracing_, fds_, free_fd_, cpu_count, i, cur, status,
                 failedCopyStatus, pass_status, stop_status, ret, ctl, kbuf,
                 produced, fdtab, outfile, tar, elapsed, readlog, obs>>

(***************************************************************************)
(* The kernel: while tracing_on is 1 events arrive in the ring buffers, at *)
(* any time.  The tracer sees the buffers only through its reads, and an   *)
(* arrival can be kept from happening only by a write that turns tracing   *)
(* off, so the arrivals are placed where their order with the tracer's     *)
(* steps shows: before a pass of reads and before such a write (a read may *)
(* return less than there is, so an arrival in the middle of a pass reads  *)
(* as one before it, or as one before the next pass).  Once the pipes are  *)
(* open, what arrives on a CPU that has no pipe is never read.             *)
(***************************************************************************)
HasPipe(c) == \E f \in FdRange : fdtab[f] = InEnd(c)

Produce ==
  /\ \/ pc \in {"cfg_tracing_off", "pass_enter"}
     \/ pc = "stop_trace" /\ frame.stop_caller = "collect"
  /\ ctl.tracing_on = "1"
  /\ produced < MaxData
  /\ produced' = produced + 1
  /\ \E c \in CPUs :
       /\ pc # "cfg_tracing_off" => HasPipe(c)
       /\ kbuf' = [kbuf EXCEPT ![c] = Append(@, produced + 1)]
  /\ UNCHANGED <<pc, Fixed, is_tracing_, fds_, free_fd_, cpu_count, i, cur,
                 status, failedCopyStatus, pass_status, stop_status,
                 frame, ret, ctl, fdtab, outfile, tar, elapsed, readlog, obs>>

Next ==
  \/ Trace
  \/ Configure_TracingOff
  \/ Configure_FreeBuffer
  \/ Configure_CurrentTracer
  \/ Configure_TraceOptions
  \/ Configure_BufferSize
  \/ EnableEvents
  \/ CopyFormats
  \/ CopySystemTopology
  \/ CollectTrace_Prepare
  \/ CollectTrace_OpenCPU
  \/ CollectTrace_Start
  \/ SleepFor
  \/ CollectTrace_Loop
  \/ CopyCPUBuffers_Enter
  \/ CopyCPUBuffer_Read
  \/ CopyCPUBuffers_Return
  \/ StopTrace_Write
  \/ StopTrace_Finish
  \/ Trace_Collected
  \/ CreateTar
  \/ Destructor
  \/ StopTrace_Idle
  \/ CopyCPUBuffers_Idle
  \/ Produce

Spec == Init /\ [][Next]_vars

(***************************************************************************)
(* A kernel that never runs out of events: once the counted bytes have     *)
(* arrived, while tracing_on is 1 and a pass is reading, a byte arrives in *)
(* the ring buffer of a CPU as soon as the pass has emptied it.  The bytes *)
(* past the counted ones carry the value 0.  The tracer is a running       *)
(* process: its next step is always taken.                                 *)
(***************************************************************************)
ProduceMore ==
  /\ pc = "drain_read"
  /\ is_tracing_
  /\ ctl.tracing_on = "1"
  /\ produced = MaxData
  /\ \E c \in CPUs :
       /\ HasPipe(c)
       /\ kbuf[c] = <<>>
       /\ kbuf' = [kbuf EXCEPT ![c] = Append(@, 0)]
  /\ UNCHANGED <<pc, Fixed, is_tracing_, fds_, free_fd_, cpu_count, i, cur,
                 status, failedCopyStatus, pass_status, stop_status, frame,
                 ret, ctl, produced, fdtab, outfile, tar, elapsed, readlog, obs>>

NextEndless == Next \/ ProduceMore

\* the steps of the tracer: every step but an arrival of events
TracerStep == Next /\ produced' = produced

SpecEndless == Init /\ [][NextEndless]_vars /\ WF_vars(TracerStep)

(***************************************************************************)
(* A caller that keeps the tracer after Trace() has returned and calls     *)
(* Trace() on it again, as the public interface of the class allows.       *)
(***************************************************************************)
Trace_Again == TraceCall("returned", ReuseCalls)

NextReuse == Next \/ Trace_Again

SpecReuse == Init /\ [][NextReuse]_vars

(***************************************************************************)
(* What the claims speak of.                                               *)
(***************************************************************************)
GuardOpen == \E f \in FdRange : fdtab[f].kind = "guard"
StreamOpen == \E f \in FdRange : fdtab[f].kind \in {"in", "out"}
\* the free_buffer handle was opened, is closed, and close(free_fd_) never
\* ran without hitting it
GuardClosedOnce == obs.guard_opened /\ ~GuardOpen /\ ~obs.guard_reclosed

\* C1: after a successful ConfigureFTrace() followed by StopTrace(false) with
\* no capture in between (the staging failed and the tracer was destroyed),
\* tracing_on is 0 and the free_buffer handle has been closed exactly once.
C1_ConfigureThenStop ==
  (pc = "destroyed" /\ obs.cfg_ok /\ ~obs.capture)
    => (ctl.tracing_on = "0" /\ GuardClosedOnce)

\* C2: when a pipe or an output file failed to open in CollectTrace, then once
\* Trace() has returned and the tracer is destroyed the session has failed, no
\* CPU stream descriptor is open and the free_buffer handle is released.
C2_OpenFailureReleasesAll ==
  (pc = "destroyed" /\ obs.open_failed)
    => (~ret.ok /\ ~StreamOpen /\ ~GuardOpen)

\* C3: in a session that opened the free_buffer handle, the handle has been
\* closed exactly once by the time the tracer is destroyed, whatever failed.
C3_GuardClosedExactlyOnce ==
  (pc = "destroyed" /\ obs.guard_opened) => GuardClosedOnce

\* C4: StopTrace(final_copy) called while the session is not tracing returns
\* an error, writes no kernel control file, closes no descriptor and leaves
\* every field of the session as it was, for either value of final_copy.
C4_StopWhenNotTracing ==
  [][(pc = "stop_trace" /\ pc' # pc /\ ~is_tracing_)
       => /\ ~stop_status'.ok
          /\ pc' \in {"main", "destroyed", "collected"}
          /\ ctl' = ctl
          /\ fdtab' = fdtab
          /\ kbuf' = kbuf
          /\ <<is_tracing_, fds_, free_fd_, buffer_size_, events_>>' =
               <<is_tracing_, fds_, free_fd_, buffer_size_, events_>>]_vars

\* the destructor's StopTrace(false) has returned its error on a session that
\* was configured and holds open descriptors
C4_Witness ==
  /\ pc = "destroyed"
  /\ stop_status = NotTracingError
  /\ obs.cfg_ok
  /\ GuardOpen

\* C5: when a pass of the capture loop fails and the StopTrace(true) that
\* follows fails too, CollectTrace returns an error whose message holds both
\* messages; when one of the two fails, it returns an error with that message.
C5_BothFailuresReported ==
  pc = "collected" =>
    /\ (~failedCopyStatus.ok \/ ~stop_status.ok) => ~status.ok
    /\ ~failedCopyStatus.ok =>
         Contains(status.message, failedCopyStatus.message)
    /\ ~stop_status.ok => Contains(status.message, stop_status.message)

C5_Witness ==
  /\ pc = "collected"
  /\ ~failedCopyStatus.ok
  /\ ~stop_status.ok
  /\ failedCopyStatus.message # stop_status.message

\* C6: Trace() returns OK only if every step succeeded: the control writes,
\* the guard open, the event writes, the staging, the stream opens, the
\* reads and the output writes, the stop write and the archive step.
C6_OkOnlyIfEveryStepSucceeded ==
  (pc = "returned" /\ ret.ok) => ~obs.os_failed

\* C7: when a pass of the capture loop has failed, the archive is still made
\* and holds, for every CPU, the data drained so far.
C7_PartialCaptureArchived ==
  (pc = "returned" /\ obs.drain_failed)
    => (tar.made /\ \A c \in CPUs : tar.files[c] = outfile[c])

\* C8: a read failure other than EAGAIN on the stream of CPU i yields an error
\* that names CPU index i.
C8_ReadErrorNamesCPU ==
  (pc = "pass_ret" /\ obs.read_fail_cpu # -1)
    => pass_status.message =
         StrCat2(<<"Unable to read cpu file ">>, to_string(obs.read_fail_cpu))

\* C9: when Trace() reports success, every CPU's output file holds exactly the
\* bytes the reads of that CPU's pipe returned, in order.
C9_OutputEqualsReads ==
  (pc = "returned" /\ ret.ok) => \A c \in CPUs : outfile[c] = readlog[c]

\* C10: a drain whose read returns 0 bytes or fails with EAGAIN appends
\* nothing to the output file and returns OK; so a pass in which every read
\* finds no data leaves every output file unchanged and reports no error.
C10_EmptyDrainIsNoOp ==
  [][(pc = "drain_read" /\ is_tracing_)
       => /\ obs'.last_read = "nodata"
             => (outfile' = outfile /\ (pc' = "pass_ret" => pass_status'.ok))
          /\ obs'.pass_nodata
             => (outfile' = outfile /\ (pc' = "pass_ret" => pass_status'.ok))]_vars

\* a pass that found no data has returned OK, after an earlier pass had
\* written data to an output file
C10_Witness ==
  /\ pc = "pass_ret"
  /\ obs.pass_nodata
  /\ obs.last_read = "nodata"
  /\ pass_status.ok
  /\ \E c \in CPUs : outfile[c] # <<>>

\* C11: when no pass of the capture loop fails, the loop is left for the
\* tracing_on=0 write of StopTrace only after the capture duration has passed
\* since the start time taken after the tracing_on=1 write.
C11_NoEarlyExit ==
  [][(pc = "collect_loop" /\ pc' = "stop_trace")
       => /\ elapsed >= Seconds(capture_seconds)
          /\ capture_seconds > 0
          /\ failedCopyStatus.ok
          /\ is_tracing_]_vars

\* the loop has ended on the deadline and StopTrace(true) is about to write
C11_Witness ==
  /\ pc = "stop_trace"
  /\ frame.stop_caller = "collect"
  /\ failedCopyStatus.ok
  /\ is_tracing_
  /\ capture_seconds > 0

\* C12: destroying the tracer calls StopTrace(false) once and drops its
\* result; on a session that is no longer tracing the call writes no kernel
\* control file and does not close the free_buffer handle again.  (Trace()
\* never returns with is_tracing_ set, so the destructor never meets a
\* session that is tracing.)
C12_DestructorStopsOnce ==
  [][/\ pc = "returned"
          => (pc' = "stop_trace" /\ frame'.stop_caller = "dtor"
                /\ ~frame'.final_copy /\ ~is_tracing_)
     /\ (pc = "stop_trace" /\ frame.stop_caller = "dtor" /\ ~is_tracing_)
          => /\ pc' = "destroyed"
             /\ ret' = ret
             /\ ctl' = ctl
             /\ fdtab' = fdtab
             /\ kbuf' = kbuf
             /\ obs'.guard_reclosed = obs.guard_reclosed
     /\ pc # "destroyed"]_vars

\* the tracer is destroyed after a capture whose StopTrace has released the
\* guard: the destructor's StopTrace has changed nothing
C12_Witness ==
  /\ pc = "destroyed"
  /\ obs.capture
  /\ obs.guard_opened
  /\ ~GuardOpen
  /\ ~obs.guard_reclosed
  /\ stop_status = NotTracingError

\* C13: a ConfigureFTrace() issued while the session is configured (the
\* free_buffer handle is held and no capture has started) or is tracing
\* fails with an error, writes no kernel control file and opens no second
\* free_buffer handle.
C13_SecondConfigureRefused ==
  [][/\ (pc = "cfg_tracing_off" /\ pc' # pc /\ (HitsGuard(fdtab) \/ is_tracing_))
          => /\ pc' = "returned"
             /\ ~ret'.ok
             /\ ctl' = ctl
             /\ fdtab' = fdtab
             /\ free_fd_' = free_fd_
     /\ Cardinality({f \in FdRange : fdtab'[f].kind = "guard"}) <= 1]_vars

\* C14: WriteString returns OK only when the control file was opened and all
\* of the data was written: after a write that returned OK the control file
\* holds the value written.
C14_WriteStringReportsFailure ==
  [][/\ (pc = "cfg_tracing_off" /\ pc' = "cfg_free_buffer")
          => ctl'.tracing_on = "0"
     /\ (pc = "cfg_trace_options" /\ pc' = "cfg_buffer_size")
          => ctl'.trace_options = "disable_on_free"
     /\ (pc = "collect_start" /\ pc' = "collect_sleep")
          => ctl'.tracing_on = "1"]_vars

HoldingGuard ==
  \/ pc \in {"cfg_current_tracer", "cfg_trace_options", "cfg_buffer_size",
             "cfg_events", "copy_formats", "copy_topology", "collect",
             "collect_open", "collect_start", "collect_sleep", "collect_loop",
             "pass_enter", "drain_read", "pass_ret", "stop_clear"}
  \/ pc = "stop_trace" /\ frame.stop_caller = "collect"

\* C16: StopTrace on a tracing session writes tracing_on=0, then with
\* final_copy makes one pass over the CPU streams, then closes the CPU
\* streams and then the free_buffer handle; the handle is held from its open
\* in ConfigureFTrace until the final pass has ended, so the ring buffer is
\* not cleared before the last drain.
C16_StopOrder ==
  [][/\ (HoldingGuard /\ calls = 1) => HitsGuard(fdtab)
     /\ (pc = "stop_trace" /\ pc' # pc /\ is_tracing_ /\ is_tracing_')
          => /\ ctl' \in {ctl, [ctl EXCEPT !.tracing_on = "0"]}
             /\ pc' = IF frame.final_copy THEN "pass_enter" ELSE "stop_clear"
             /\ frame'.pass_caller = IF frame.final_copy THEN "stop" ELSE "none"
             /\ fdtab' = fdtab
             /\ kbuf' = kbuf
     /\ (pc = "pass_ret" /\ frame.pass_caller = "stop")
          => pc' \in {"stop_clear", "collected"}
     /\ pc = "stop_clear"
          => /\ is_tracing_ /\ HitsGuard(fdtab)
             /\ frame.final_copy => frame.pass_caller = "stop"
             /\ pc' = "collected"
             /\ ~is_tracing_'
             /\ fds_' = <<>>
             /\ \A f \in FdRange : fdtab'[f].kind \notin {"in", "out", "guard"}]_vars

\* the final pass has ended: tracing is off in the kernel, the streams and
\* the guard are still open
C16_Witness ==
  /\ pc = "stop_clear"
  /\ frame.final_copy
  /\ frame.pass_caller = "stop"
  /\ ctl.tracing_on = "0"
  /\ HitsGuard(fdtab)
  /\ StreamOpen
  /\ \E c \in CPUs : readlog[c] # <<>>

C18_StreamsClosedAtCaptureEnd ==
  pc = "collected" => (~StreamOpen /\ fds_ = <<>>)

\* C19: a pass of CopyCPUBuffers drains the CPUs in increasing index order,
\* starting at 0, and ends at the first CPU whose read fails: it returns the
\* error of that CPU and reads and writes nothing for the CPUs after it.
C19_PassFailsFast ==
  [][/\ (pc = "pass_enter" /\ is_tracing_ /\ pc' = "drain_read") => i' = 0
     /\ (pc = "drain_read" /\ is_tracing_)
          => /\ pc' = "drain_read" => i' \in {i, i + 1}
             /\ (pc' = "drain_read" /\ i' < Len(fds_)) => cur' = fds_[i' + 1]
             /\ (readlog' # readlog \/ outfile' # outfile)
                  => /\ i' = i /\ pc' = "drain_read"
                     /\ i < Len(fds_) =>
                          \A c \in CPUs \ {i} :
                            readlog'[c] = readlog[c] /\ outfile'[c] = outfile[c]
             /\ obs'.last_read = "error"
                  => /\ pc' = "pass_ret"
                     /\ pass_status' = ReadErrorStatus(cur.first)
                     /\ obs'.read_fail_cpu = i
                     /\ readlog' = readlog
                     /\ outfile' = outfile
                     /\ kbuf' = kbuf]_vars

\* the read of CPU 0 has failed and the pass has returned while data of
\* the next CPU waits in the kernel
C19_Witness ==
  /\ pc = "pass_ret"
  /\ obs.read_fail_cpu = 0
  /\ ~pass_status.ok
  /\ Len(fds_) = MaxCPU
  /\ kbuf[1] # <<>>

\* C20: nothing is read from a CPU pipe and nothing is appended to an output
\* file while the session is not tracing: CopyCPUBuffers and CopyCPUBuffer
\* called then return "Not currently in a trace" without a read or a write,
\* and bytes are read and appended only by the drain of a tracing session.
C20_NoTransferOutsideTracing ==
  [][/\ (pc \in {"pass_enter", "drain_read"} /\ pc' # pc /\ ~is_tracing_)
          => /\ pc' = "pass_ret"
             /\ pass_status' = NotTracingError
             /\ kbuf' = kbuf
             /\ readlog' = readlog
             /\ outfile' = outfile
     /\ (\E c \in CPUs : \/ Len(readlog'[c]) > Len(readlog[c])
                         \/ Len(outfile'[c]) > Len(outfile[c]))
          => /\ is_tracing_
             /\ pc = "drain_read"
             /\ obs.capture]_vars

\* a drain called on a tracer that is not tracing has returned its error
C20_Witness ==
  /\ pc = "pass_ret"
  /\ frame.pass_caller = "test"
  /\ ~is_tracing_
  /\ pass_status = NotTracingError

\* C21: while the session is tracing fds_ holds one pair for each CPU counted
\* when the streams were opened, and a pass drains exactly those pairs: its
\* index stays inside fds_ and it ends only after the last pair, whatever
\* get_nprocs() returns at the time of the pass.
C21_PassDrainsOpenedPairs ==
  /\ pc # "crashed"
  /\ (is_tracing_ /\ pc = "drain_read")
       => /\ cpu_count = Len(fds_)
          /\ i < Len(fds_)
          /\ cur = fds_[i + 1]

\* C22: once tracing has started the capture ends: from every wait of the
\* capture loop the tracer comes to the tracing_on=0 write of StopTrace, also
\* with a kernel that always has more data to read.  (A pass that reads past
\* the end of fds_ may end the process instead; that is the subject of C21.)
C22_CaptureEnds ==
  (pc = "collect_sleep" /\ is_tracing_) ~> (pc \in {"stop_trace", "crashed"})
====
